---- MODULE Spec2Model ----
(***************************************************************************)
(* System rule manager of sentinel-golang (core/system/rule_manager.go).   *)
(*                                                                         *)
(* The package keeps one process-wide index of system rules (ruleMap),     *)
(* guarded by a sync.RWMutex (ruleMapMux), and one process-wide update     *)
(* handler (ruleUpdateHandler).  Goroutines call GetRules, getRules,       *)
(* LoadRules, ClearRules, IsValidSystemRule and RegisterRuleUpdateHandler  *)
(* concurrently; every function is modelled by one action per step that    *)
(* touches shared state.                                                   *)
(*                                                                         *)
(* Rules are passed by pointer; pointers are addresses into heap, and      *)
(* Nil is the nil pointer.  Rule.TriggerCount is a float64 and is held     *)
(* here in fixed point, TriggerScale units per 1.0.                        *)
(***************************************************************************)
EXTENDS Integers, Sequences, FiniteSets, Bags, TLC

(***************************************************************************)
(* Bounds of the model.                                                    *)
(***************************************************************************)
\* goroutines using the package concurrently
NumThreads == 2
\* calls (registrations included) a behaviour may start
MaxOps == 3
\* largest MetricType value of a rule handed to IsValidSystemRule on its own
MaxMetricType == 6
\* longest candidate list handed to buildRuleMap on its own
MaxLen == 3

Threads == 1..NumThreads

(***************************************************************************)
(* Rule, MetricType (core/system/rule.go) and the nil pointer.             *)
(***************************************************************************)
Load == 0
CpuUsage == 4
MetricTypeSize == 5
\* fixed-point unit of Rule.TriggerCount: the literal 1 of line 125 is TriggerScale
TriggerScale == 10000
\* the nil *Rule
Nil == 0
\* the nil error
NoErr == "nil"

MkRule(mt, tc) == [MetricType |-> mt, TriggerCount |-> tc]

\* The Rule objects callers own and hand to LoadRules, by address.
RulePool ==
  << MkRule(CpuUsage, TriggerScale),          \* 1: CPU usage 1.0      valid
     MkRule(CpuUsage, 8000),                  \* 2: CPU usage 0.8      valid
     MkRule(Load, 2 * TriggerScale),          \* 3: load 2.0           valid
     MkRule(CpuUsage, TriggerScale + 1),      \* 4: CPU usage 1.0001   invalid
     MkRule(Load, -1),                        \* 5: negative threshold invalid
     MkRule(MetricTypeSize, TriggerScale) >>  \* 6: unknown metric     invalid

RuleAddrs == DOMAIN RulePool

\* Candidate lists ([]*Rule) handed to LoadRules; the empty list is loaded
\* by ClearRules.
Lists ==
  { <<1, 3, 2>>,      \* all valid, two metric types, CPU rules not adjacent
    <<2, 2>>,         \* a duplicate
    <<4, 3, Nil>>,    \* invalid first, nil last
    <<5, 6>> }        \* only invalid rules

(***************************************************************************)
(* IsValidSystemRule (lines 114-129): the error it returns, NoErr for nil. *)
(***************************************************************************)
\* the validator with the CPU usage bound made exclusive
IsValidSystemRuleExclusive(hp, rule) ==
  IF rule = Nil THEN "nil Rule"
  ELSE IF hp[rule].TriggerCount < 0 THEN "negative threshold"
  ELSE IF hp[rule].MetricType >= MetricTypeSize THEN "invalid metric type"
  ELSE IF hp[rule].MetricType = CpuUsage /\ hp[rule].TriggerCount >= TriggerScale
       THEN "invalid CPU usage, valid range is [0.0, 1.0]"
  ELSE NoErr
\* the validator without the CPU usage range check
IsValidSystemRuleNoCpuRange(hp, rule) ==
  IF rule = Nil THEN "nil Rule"
  ELSE IF hp[rule].TriggerCount < 0 THEN "negative threshold"
  ELSE IF hp[rule].MetricType >= MetricTypeSize THEN "invalid metric type"
  ELSE NoErr
IsValidSystemRule(hp, rule) ==
  IF rule = Nil THEN "nil Rule"
  ELSE IF hp[rule].TriggerCount < 0 THEN "negative threshold"
  ELSE IF hp[rule].MetricType >= MetricTypeSize THEN "invalid metric type"
  ELSE IF hp[rule].MetricType = CpuUsage /\ hp[rule].TriggerCount > TriggerScale
       THEN "invalid CPU usage, valid range is [0.0, 1.0]"
  ELSE NoErr

(***************************************************************************)
(* RuleMap (line 12): map[MetricType][]*Rule, a function from the metric   *)
(* types that have a bucket to the sequence of rule addresses.             *)
(***************************************************************************)
EmptyMap == [k \in {} |-> << >>]

\* lines 96-99: does the loop keep this candidate
RuleAcceptedNonNil(hp, rule) == rule # Nil
RuleAccepted(hp, rule) == IsValidSystemRule(hp, rule) = NoErr

\* the bucket overwritten instead of appended to
PutRuleOverwrite(mp, mt, rule) ==
  [k \in DOMAIN mp \cup {mt} |-> IF k = mt THEN <<rule>> ELSE mp[k]]
\* lines 100-105: the map with rule appended to the bucket mt
PutRule(mp, mt, rule) ==
  IF mt \in DOMAIN mp
  THEN [mp EXCEPT ![mt] = Append(@, rule)]
  ELSE [k \in DOMAIN mp \cup {mt} |-> IF k = mt THEN <<rule>> ELSE mp[k]]

\* lines 95-109: the loop over the candidates from position i on
RECURSIVE buildLoop(_, _, _, _)
buildLoop(hp, rules, i, mp) ==
  IF i > Len(rules) THEN mp
  ELSE IF ~RuleAccepted(hp, rules[i]) THEN buildLoop(hp, rules, i + 1, mp)
  ELSE buildLoop(hp, rules, i + 1, PutRule(mp, hp[rules[i]].MetricType, rules[i]))

\* lines 88-111
buildRuleMap(hp, rules) ==
  IF Len(rules) = 0 THEN EmptyMap ELSE buildLoop(hp, rules, 1, EmptyMap)

(***************************************************************************)
(* The chain registrar (package misc) as buildRuleMap uses it, line 108:   *)
(* misc.RegisterRuleCheckSlotForResource(rule.ResourceName(), slot).       *)
(***************************************************************************)
DefaultAdaptiveSlot == "DefaultAdaptiveSlot"
\* Rule.ResourceName(): the name of the rule's metric type
ResourceName(hp, rule) == <<"resource", hp[rule].MetricType>>

\* line 108: the call made for an accepted rule (rule: which candidate it
\* was made for)
RegisterCall(hp, rule) ==
  [rule |-> rule, res |-> ResourceName(hp, rule), slot |-> DefaultAdaptiveSlot]

\* lines 95-109: the registrar calls of the loop from position i on
RECURSIVE registerLoop(_, _, _, _)
registerLoop(hp, rules, i, calls) ==
  IF i > Len(rules) THEN calls
  ELSE IF ~RuleAccepted(hp, rules[i]) THEN registerLoop(hp, rules, i + 1, calls)
  ELSE registerLoop(hp, rules, i + 1, Append(calls, RegisterCall(hp, rules[i])))

\* the call made only where the loop creates a bucket (line 102)
RECURSIVE registerLoopNewBucket(_, _, _, _, _)
registerLoopNewBucket(hp, rules, i, seen, calls) ==
  IF i > Len(rules) THEN calls
  ELSE IF ~RuleAccepted(hp, rules[i]) \/ hp[rules[i]].MetricType \in seen
       THEN registerLoopNewBucket(hp, rules, i + 1, seen, calls)
  ELSE registerLoopNewBucket(hp, rules, i + 1, seen \cup {hp[rules[i]].MetricType},
                             Append(calls, RegisterCall(hp, rules[i])))
registerCallsNewBucket(hp, rules) == registerLoopNewBucket(hp, rules, 1, {}, << >>)
\* the call left out
registerCallsNone(hp, rules) == << >>
\* lines 88-111: the registrar calls buildRuleMap(rules) makes, in order
registerCalls(hp, rules) ==
  IF Len(rules) = 0 THEN << >> ELSE registerLoop(hp, rules, 1, << >>)

\* misc.RegisterRuleCheckSlotForResource: the registry after the calls
RegisterRuleCheckSlotForResource(slots, calls) ==
  slots \cup { <<calls[i].res, calls[i].slot>> : i \in DOMAIN calls }

\* `for _, rs := range ruleMap`: Go visits the keys of a map in an unspecified
\* order; every order of the keys is possible.
RangeOrders(mp) ==
  LET n == Cardinality(DOMAIN mp)
  IN { o \in [1..n -> DOMAIN mp] : \A i, j \in 1..n : i # j => o[i] # o[j] }

\* lines 29-31 / 48-50: rules = append(rules, rs...) for the keys in order o
RECURSIVE Collect(_, _)
Collect(mp, o) ==
  IF Len(o) = 0 THEN << >> ELSE mp[Head(o)] \o Collect(mp, Tail(o))

(***************************************************************************)
(* Update handlers (RuleUpdateHandler, line 14).  A handler is host code;  *)
(* what the package sees of it is whether it invokes the installer         *)
(* callback with the index it was given, and what it returns.              *)
(***************************************************************************)
Handlers == {"default", "reject", "publishThenFail", "skip"}

\* a handler that reads the store with GetRules and then behaves as the
\* default handler
ReadingHandler == "readThenPublish"
HandlerReads(h) == h = ReadingHandler

\* does the handler invoke onRuleUpdate(rules)
HandlerInvokes(h) == h \in {"default", "publishThenFail", ReadingHandler}

\* the handler's return value, cbErr being what the callback returned
HandlerReturn(h, cbErr) ==
  CASE h = "default" -> cbErr                    \* lines 135-137
    [] h = "reject" -> "rejected"
    [] h = "publishThenFail" -> "propagation failed"
    [] h = "skip" -> NoErr
    [] h = ReadingHandler -> cbErr

\* lines 58-63: what LoadRules returns for the handler's return value
LoadRulesResultAlwaysTrue(err) == <<TRUE, err>>
LoadRulesResult(err) == IF err # NoErr THEN <<FALSE, err>> ELSE <<TRUE, NoErr>>

\* line 84: the index held by ruleMap after onRuleUpdate(r)
KeepMap(cur, r) == cur
MergeMaps(cur, r) ==
  [k \in DOMAIN cur \cup DOMAIN r |->
     (IF k \in DOMAIN cur THEN cur[k] ELSE << >>) \o
     (IF k \in DOMAIN r THEN r[k] ELSE << >>)]
Installed(cur, r) == r

(***************************************************************************)
(* Elements of a returned slice.  GetRules returns []Rule, whose elements  *)
(* are values held by the slice itself (ptr = Nil, val the copy); getRules *)
(* returns []*Rule, whose elements are the addresses of the live rules.    *)
(***************************************************************************)
NoRule == MkRule(0, 0)
SharedElem(hp, a) == [ptr |-> a, val |-> NoRule]
\* GetRules appending the pointer itself instead of the value it points to
AliasedElem(hp, a) == [ptr |-> a, val |-> NoRule]
\* line 36: ret = append(ret, *r)
CopiedElem(hp, a) == [ptr |-> Nil, val |-> hp[a]]
\* the Rule an element denotes
ElemRule(hp, e) == IF e.ptr # Nil THEN hp[e.ptr] ELSE e.val

\* Values a caller writes into an element of a slice GetRules returned.
MutValues == { MkRule(MetricTypeSize, -1) }

(***************************************************************************)
(* State.                                                                  *)
(***************************************************************************)
VARIABLES
  ruleMap,            \* line 17: the active index
  rlocked,            \* ruleMapMux: goroutines holding the read lock
  wlock,              \* ruleMapMux: goroutine that called Lock (0: none)
  ruleUpdateHandler,  \* line 19
  heap,               \* the Rule objects, by address
  pc,                 \* per goroutine: where it stands
  op,                 \* per goroutine: the function it runs or last ran
  arg,                \* per goroutine: the argument of the call
  hnd,                \* per goroutine: the handler LoadRules invoked
  mloc,               \* per goroutine: LoadRules' m
  regs,               \* per goroutine: registrar calls made by its buildRuleMap
  checkSlots,         \* package misc: the (resource, slot) pairs registered
  rules,              \* per goroutine: GetRules'/getRules' rules
  ret,                \* per goroutine: the returned slice
  result,             \* per goroutine: the returned (bool, error) / error
  nops,               \* history: number of calls started so far
  curList,            \* history: candidate list of the latest publish
  ver,                \* history: number of publishes so far
  ordHist,            \* history: is the order of returns and calls recorded
  lastReg,            \* history: handler of the latest registration
  floorAny,           \* history: version owed by the loads that returned (true, nil)
  floorPub,           \* history: the same, counting only loads that published
  startVer,           \* history, per load: publishes before the call
  pubVer,             \* history, per load: the version its publish made (0: none)
  needAny,            \* history, per read: floorAny when the read was called
  needPub,            \* history, per read: floorPub when the read was called
  srcList,            \* history, per read: curList when it ranged ruleMap
  srcVer,             \* history, per read: ver when it ranged ruleMap
  mutated             \* history, per read: has the caller written into ret

vars == << ruleMap, rlocked, wlock, ruleUpdateHandler, heap, pc, op, arg, hnd,
           mloc, regs, checkSlots, lastReg, rules, ret, result, nops, curList, ver, ordHist, floorAny,
           floorPub, startVer, pubVer, needAny, needPub, srcList, srcVer,
           mutated >>

shared == << ruleMap, rlocked, wlock, ruleUpdateHandler, heap >>
hist == << curList, ver, ordHist, floorAny, floorPub, lastReg >>
\* what index construction leaves behind
built == << mloc, regs, checkSlots >>
thist == << startVer, pubVer, needAny, needPub, srcList, srcVer, mutated >>

Max(a, b) == IF a >= b THEN a ELSE b

Idle(t) == pc[t] \in {"idle", "done"}

\* A call starts: the goroutine's locals of the previous call are dropped
\* (res: the result, for a call that returns in the same step).
Enter(t, name, a, at, res) ==
  /\ Idle(t)
  /\ nops < MaxOps
  /\ nops' = nops + 1
  /\ pc' = [pc EXCEPT ![t] = at]
  /\ op' = [op EXCEPT ![t] = name]
  /\ arg' = [arg EXCEPT ![t] = a]
  /\ hnd' = [hnd EXCEPT ![t] = "none"]
  /\ rules' = [rules EXCEPT ![t] = << >>]
  /\ ret' = [ret EXCEPT ![t] = << >>]
  /\ result' = [result EXCEPT ![t] = res]
  /\ startVer' = [startVer EXCEPT ![t] = IF ordHist THEN ver ELSE 0]
  /\ pubVer' = [pubVer EXCEPT ![t] = 0]
  /\ needAny' = [needAny EXCEPT ![t] = floorAny]
  /\ needPub' = [needPub EXCEPT ![t] = floorPub]
  /\ srcList' = [srcList EXCEPT ![t] = << >>]
  /\ srcVer' = [srcVer EXCEPT ![t] = 0]
  /\ mutated' = [mutated EXCEPT ![t] = FALSE]

InitLocals ==
  /\ rlocked = {}
  /\ wlock = 0
  /\ ruleUpdateHandler = "default"
  /\ pc = [t \in Threads |-> "idle"]
  /\ op = [t \in Threads |-> "none"]
  /\ arg = [t \in Threads |-> << >>]
  /\ hnd = [t \in Threads |-> "none"]
  /\ mloc = [t \in Threads |-> EmptyMap]
  /\ regs = [t \in Threads |-> << >>]
  /\ checkSlots = {}
  /\ lastReg = "default"
  /\ rules = [t \in Threads |-> << >>]
  /\ ret = [t \in Threads |-> << >>]
  /\ result = [t \in Threads |-> << >>]
  /\ nops = 0
  /\ curList = << >>
  /\ ver = 0
  /\ floorAny = 0
  /\ floorPub = 0
  /\ startVer = [t \in Threads |-> 0]
  /\ pubVer = [t \in Threads |-> 0]
  /\ needAny = [t \in Threads |-> 0]
  /\ needPub = [t \in Threads |-> 0]
  /\ srcList = [t \in Threads |-> << >>]
  /\ srcVer = [t \in Threads |-> 0]
  /\ mutated = [t \in Threads |-> FALSE]

\* lines 17-19: the package's variables after initialisation
Init ==
  /\ ruleMap = EmptyMap
  /\ heap = RulePool
  /\ ordHist = FALSE
  /\ InitLocals

(***************************************************************************)
(* LoadRules (lines 55-64) and ClearRules (lines 67-70).                   *)
(***************************************************************************)
\* line 56: m := buildRuleMap(rules)
LoadRules_call(t, list) ==
  /\ Enter(t, "LoadRules", list, "l_handler", << >>)
  /\ mloc' = [mloc EXCEPT ![t] = buildRuleMap(heap, list)]
  /\ regs' = [regs EXCEPT ![t] = registerCalls(heap, list)]
  /\ checkSlots' = RegisterRuleCheckSlotForResource(checkSlots, registerCalls(heap, list))
  /\ UNCHANGED << shared, hist >>

\* line 68: LoadRules(nil)
ClearRules_call(t) ==
  /\ Enter(t, "ClearRules", << >>, "l_handler", << >>)
  /\ mloc' = [mloc EXCEPT ![t] = buildRuleMap(heap, << >>)]
  /\ regs' = [regs EXCEPT ![t] = registerCalls(heap, << >>)]
  /\ checkSlots' = RegisterRuleCheckSlotForResource(checkSlots, registerCalls(heap, << >>))
  /\ UNCHANGED << shared, hist >>

\* what the call returns to its caller: LoadRules (bool, error), ClearRules
\* (line 69) the error alone
Returned(t, err) ==
  IF op[t] = "ClearRules" THEN << LoadRulesResult(err)[2] >> ELSE LoadRulesResult(err)

\* The load returns to its caller.  History: a LoadRules that returns
\* (true, nil) owes every read called from now on the version it published
\* or a later one; floorAny counts every such load (one that published
\* nothing owes a version newer than those it found), floorPub only the
\* loads whose handler invoked the callback.
LoadReturns(t, err) ==
  /\ result' = [result EXCEPT ![t] = Returned(t, err)]
  /\ pc' = [pc EXCEPT ![t] = "done"]
  /\ floorAny' = IF ordHist /\ Returned(t, err) = <<TRUE, NoErr>>
                 THEN Max(floorAny, IF pubVer[t] > 0 THEN pubVer[t] ELSE startVer[t] + 1)
                 ELSE floorAny
  /\ floorPub' = IF ordHist /\ Returned(t, err) = <<TRUE, NoErr>>
                 THEN Max(floorPub, pubVer[t])
                 ELSE floorPub

\* line 58: the handler variable is read and the handler invoked.  A handler
\* that does not invoke the callback returns at once, and so does LoadRules.
LoadRules_handler(t) ==
  /\ pc[t] = "l_handler"
  /\ hnd' = [hnd EXCEPT ![t] = ruleUpdateHandler]
  /\ IF HandlerInvokes(ruleUpdateHandler)
     THEN /\ pc' = [pc EXCEPT ![t] = IF HandlerReads(ruleUpdateHandler)
                                      THEN "h_make" ELSE "u_lock"]
          /\ UNCHANGED << result, floorAny, floorPub >>
     ELSE LoadReturns(t, HandlerReturn(ruleUpdateHandler, NoErr))
  /\ UNCHANGED << shared, curList, ver, ordHist, lastReg, nops, op, arg, built, rules, ret, thist >>

(***************************************************************************)
(* onRuleUpdate (lines 72-86).  sync.RWMutex.Lock first excludes other     *)
(* writers and new readers, then waits for the active readers to leave.    *)
(***************************************************************************)
\* the write lock left held
StillLocked(w) == w
\* line 76: ruleMapMux.Unlock(): no writer holds the lock
Unlock(w) == 0

\* line 74: Lock() is entered
onRuleUpdate_Lock(t) ==
  /\ pc[t] = "u_lock"
  /\ wlock = 0
  /\ wlock' = t
  /\ pc' = [pc EXCEPT ![t] = "u_wait"]
  /\ UNCHANGED << ruleMap, rlocked, ruleUpdateHandler, heap, hist, nops, op, arg,
                  hnd, built, rules, ret, result, thist >>

\* line 74: Lock() returns once no reader holds the lock
onRuleUpdate_Locked(t) ==
  /\ pc[t] = "u_wait"
  /\ rlocked = {}
  /\ pc' = [pc EXCEPT ![t] = "u_assign"]
  /\ UNCHANGED << shared, hist, nops, op, arg, hnd, built, rules, ret, result, thist >>

\* line 84: ruleMap = r
onRuleUpdate_assign(t) ==
  /\ pc[t] = "u_assign"
  /\ ruleMap' = Installed(ruleMap, mloc[t])
  /\ curList' = arg[t]
  /\ ver' = ver + 1
  /\ pubVer' = [pubVer EXCEPT ![t] = ver + 1]
  /\ pc' = [pc EXCEPT ![t] = "u_unlock"]
  /\ UNCHANGED << rlocked, wlock, ruleUpdateHandler, heap, nops, op, arg, hnd,
                  built, rules, ret, result, ordHist, lastReg, floorAny, floorPub, startVer,
                  needAny, needPub, srcList, srcVer, mutated >>

\* lines 75-83, 85: the deferred Unlock, onRuleUpdate returns nil, the handler
\* returns, and LoadRules returns (lines 58-63)
onRuleUpdate_Unlock(t) ==
  /\ pc[t] = "u_unlock"
  /\ wlock' = Unlock(wlock)
  /\ LoadReturns(t, HandlerReturn(hnd[t], NoErr))
  /\ UNCHANGED << ruleMap, rlocked, ruleUpdateHandler, heap, curList, ver, ordHist, lastReg,
                  nops, op, arg, hnd, built, rules, ret, thist >>

(***************************************************************************)
(* GetRules (lines 26-39).                                                 *)
(***************************************************************************)
GetRules_call(t) ==
  /\ Enter(t, "GetRules", << >>, "g_make", << >>)
  /\ UNCHANGED << shared, hist, built >>

\* line 27: rules := make([]*Rule, 0, len(ruleMap)); ruleMap is read here
\* before the read lock is taken (only the capacity depends on it)
GetRules_make(t) ==
  /\ pc[t] = "g_make"
  /\ Cardinality(DOMAIN ruleMap) >= 0
  /\ rules' = [rules EXCEPT ![t] = << >>]
  /\ pc' = [pc EXCEPT ![t] = "g_rlock"]
  /\ UNCHANGED << shared, hist, nops, op, arg, hnd, built, ret, result, thist >>

\* RLock() (lines 28, 44): blocks while a writer holds or awaits the lock
RLock(t, at) ==
  /\ wlock = 0
  /\ rlocked' = rlocked \cup {t}
  /\ pc' = [pc EXCEPT ![t] = at]

\* lines 29-31 / 48-50: the range loop over ruleMap
RangeRuleMap(t, at) ==
  /\ \E o \in RangeOrders(ruleMap) : rules' = [rules EXCEPT ![t] = Collect(ruleMap, o)]
  /\ srcList' = [srcList EXCEPT ![t] = curList]
  /\ srcVer' = [srcVer EXCEPT ![t] = ver]
  /\ pc' = [pc EXCEPT ![t] = at]

\* line 28
GetRules_RLock(t) ==
  /\ pc[t] = "g_rlock"
  /\ RLock(t, "g_range")
  /\ UNCHANGED << ruleMap, wlock, ruleUpdateHandler, heap, hist, nops, op, arg,
                  hnd, built, rules, ret, result, thist >>

\* lines 29-31
GetRules_range(t) ==
  /\ pc[t] = "g_range"
  /\ RangeRuleMap(t, "g_runlock")
  /\ UNCHANGED << shared, hist, nops, op, arg, hnd, built, ret, result, startVer,
                  pubVer, needAny, needPub, mutated >>

\* line 32: RUnlock(); lines 34-38: the value copies are made from the
\* goroutine's own slice of pointers and returned
GetRules_return(t) ==
  /\ pc[t] = "g_runlock"
  /\ rlocked' = rlocked \ {t}
  /\ ret' = [ret EXCEPT ![t] = [i \in 1..Len(rules[t]) |-> CopiedElem(heap, rules[t][i])]]
  /\ pc' = [pc EXCEPT ![t] = "done"]
  /\ UNCHANGED << ruleMap, wlock, ruleUpdateHandler, heap, hist, nops, op, arg,
                  hnd, built, rules, result, thist >>

\* The caller of GetRules writes v into element i of the slice it was given.
MutateReturned(t, i, v) ==
  /\ pc[t] = "done"
  /\ op[t] = "GetRules"
  /\ i \in DOMAIN ret[t]
  /\ ElemRule(heap, ret[t][i]) # v
  /\ IF ret[t][i].ptr # Nil
     THEN /\ heap' = [heap EXCEPT ![ret[t][i].ptr] = v]
          /\ UNCHANGED ret
     ELSE /\ ret' = [ret EXCEPT ![t][i].val = v]
          /\ UNCHANGED heap
  /\ mutated' = [mutated EXCEPT ![t] = TRUE]
  /\ UNCHANGED << ruleMap, rlocked, wlock, ruleUpdateHandler, hist, nops, pc, op,
                  arg, hnd, built, rules, result, startVer, pubVer, needAny,
                  needPub, srcList, srcVer >>

(***************************************************************************)
(* GetRules called by the reading handler, inside LoadRules' call of the   *)
(* handler (line 58), before the handler calls the installer.              *)
(***************************************************************************)
\* line 27: rules := make([]*Rule, 0, len(ruleMap)); as in a direct call,
\* ruleMap is read here before the read lock is taken
HandlerGetRules_make(t) ==
  /\ pc[t] = "h_make"
  /\ Cardinality(DOMAIN ruleMap) >= 0
  /\ rules' = [rules EXCEPT ![t] = << >>]
  /\ pc' = [pc EXCEPT ![t] = "h_rlock"]
  /\ UNCHANGED << shared, hist, nops, op, arg, hnd, built, ret, result, thist >>

\* line 28
HandlerGetRules_RLock(t) ==
  /\ pc[t] = "h_rlock"
  /\ RLock(t, "h_range")
  /\ UNCHANGED << ruleMap, wlock, ruleUpdateHandler, heap, hist, nops, op, arg,
                  hnd, built, rules, ret, result, thist >>

\* lines 29-31
HandlerGetRules_range(t) ==
  /\ pc[t] = "h_range"
  /\ RangeRuleMap(t, "h_runlock")
  /\ UNCHANGED << shared, hist, nops, op, arg, hnd, built, ret, result, startVer,
                  pubVer, needAny, needPub, mutated >>

\* lines 32-38: RUnlock and return to the handler, which calls the installer
HandlerGetRules_return(t) ==
  /\ pc[t] = "h_runlock"
  /\ rlocked' = rlocked \ {t}
  /\ pc' = [pc EXCEPT ![t] = "u_lock"]
  /\ UNCHANGED << ruleMap, wlock, ruleUpdateHandler, heap, hist, nops, op, arg,
                  hnd, built, rules, ret, result, thist >>

(***************************************************************************)
(* getRules (lines 43-52).                                                 *)
(***************************************************************************)
getRules_call(t) ==
  /\ Enter(t, "getRules", << >>, "i_rlock", << >>)
  /\ UNCHANGED << shared, hist, built >>

\* line 44
getRules_RLock(t) ==
  /\ pc[t] = "i_rlock"
  /\ RLock(t, "i_range")
  /\ UNCHANGED << ruleMap, wlock, ruleUpdateHandler, heap, hist, nops, op, arg,
                  hnd, built, rules, ret, result, thist >>

\* lines 47-50
getRules_range(t) ==
  /\ pc[t] = "i_range"
  /\ RangeRuleMap(t, "i_runlock")
  /\ UNCHANGED << shared, hist, nops, op, arg, hnd, built, ret, result, startVer,
                  pubVer, needAny, needPub, mutated >>

\* lines 45, 51: return rules, then the deferred RUnlock
getRules_return(t) ==
  /\ pc[t] = "i_runlock"
  /\ rlocked' = rlocked \ {t}
  /\ ret' = [ret EXCEPT ![t] = [i \in 1..Len(rules[t]) |-> SharedElem(heap, rules[t][i])]]
  /\ pc' = [pc EXCEPT ![t] = "done"]
  /\ UNCHANGED << ruleMap, wlock, ruleUpdateHandler, heap, hist, nops, op, arg,
                  hnd, built, rules, result, thist >>

(***************************************************************************)
(* RegisterRuleUpdateHandler (lines 131-133): one unsynchronised write.    *)
(***************************************************************************)
\* the registration ignored
KeepHandler(cur, handler) == cur
\* line 132: ruleUpdateHandler = handler
AssignHandler(cur, handler) == handler

RegisterRuleUpdateHandler(t, handler) ==
  /\ Idle(t)
  /\ nops < MaxOps
  /\ nops' = nops + 1
  /\ ruleUpdateHandler' = AssignHandler(ruleUpdateHandler, handler)
  /\ lastReg' = handler
  /\ UNCHANGED << ruleMap, rlocked, wlock, heap, curList, ver, ordHist, floorAny,
                  floorPub, pc, op, arg, hnd, built,
                  rules, ret, result, thist >>

(***************************************************************************)
(* IsValidSystemRule called on its own (lines 114-129).                    *)
(***************************************************************************)
IsValidSystemRule_call(t, rule) ==
  /\ Enter(t, "IsValidSystemRule", <<rule>>, "done", << IsValidSystemRule(heap, rule) >>)
  /\ UNCHANGED << shared, hist, built >>

Next ==
  \E t \in Threads :
    \/ \E list \in Lists : LoadRules_call(t, list)
    \/ ClearRules_call(t)
    \/ LoadRules_handler(t)
    \/ onRuleUpdate_Lock(t)
    \/ onRuleUpdate_Locked(t)
    \/ onRuleUpdate_assign(t)
    \/ onRuleUpdate_Unlock(t)
    \/ GetRules_call(t)
    \/ GetRules_make(t)
    \/ GetRules_RLock(t)
    \/ GetRules_range(t)
    \/ GetRules_return(t)
    \/ \E i \in 1..Len(ret[t]), v \in MutValues : MutateReturned(t, i, v)
    \/ getRules_call(t)
    \/ getRules_RLock(t)
    \/ getRules_range(t)
    \/ getRules_return(t)
    \/ \E h \in Handlers : RegisterRuleUpdateHandler(t, h)

Spec == Init /\ [][Next]_vars

\* The same program, with the order of returns and calls recorded.
InitOrd ==
  /\ ruleMap = EmptyMap
  /\ heap = RulePool
  /\ ordHist = TRUE
  /\ InitLocals

SpecOrd == InitOrd /\ [][Next]_vars

(***************************************************************************)
(* The validator on its own: any rule value (or nil) is handed to          *)
(* IsValidSystemRule while the store holds rules.                          *)
(***************************************************************************)
TriggerCounts ==
  { -TriggerScale, -1, 0, 8000, TriggerScale, TriggerScale + 1, 5 * TriggerScale }

RuleValues == { MkRule(mt, tc) : mt \in 0..MaxMetricType, tc \in TriggerCounts }

\* the rule under test lives at this address
TestAddr == Len(RulePool) + 1

InitValid ==
  /\ \E r \in RuleValues : heap = Append(RulePool, r)
  /\ ruleMap = buildRuleMap(RulePool, <<1, 3>>)
  /\ ordHist = FALSE
  /\ InitLocals

NextValid ==
  \E t \in Threads : \E rule \in {Nil, TestAddr} : IsValidSystemRule_call(t, rule)

SpecValid == InitValid /\ [][NextValid]_vars

(***************************************************************************)
(* The package under a fair scheduler, with the default handler only: no   *)
(* handler is registered, and every goroutine that can take a step of the  *)
(* call it is in eventually takes it.                                      *)
(***************************************************************************)
\* a step of the call goroutine t is in
Step(t) ==
  \/ LoadRules_handler(t)
  \/ onRuleUpdate_Lock(t)
  \/ onRuleUpdate_Locked(t)
  \/ onRuleUpdate_assign(t)
  \/ onRuleUpdate_Unlock(t)
  \/ GetRules_make(t)
  \/ GetRules_RLock(t)
  \/ GetRules_range(t)
  \/ GetRules_return(t)
  \/ getRules_RLock(t)
  \/ getRules_range(t)
  \/ getRules_return(t)

\* whether a call returns does not depend on the rules it is given: one list
\* of valid rules and one with invalid and nil entries
LiveLists == { <<1, 3, 2>>, <<4, 3, Nil>> }

NextLive ==
  \E t \in Threads :
    \/ \E list \in LiveLists : LoadRules_call(t, list)
    \/ ClearRules_call(t)
    \/ GetRules_call(t)
    \/ getRules_call(t)
    \/ Step(t)

SpecLive == Init /\ [][NextLive]_vars /\ \A t \in Threads : WF_vars(Step(t))

(***************************************************************************)
(* Loads through a handler that reads the store, under a fair scheduler:   *)
(* the host registers the reading handler, goroutines load and read.       *)
(***************************************************************************)
StepReads(t) ==
  \/ LoadRules_handler(t)
  \/ HandlerGetRules_make(t)
  \/ HandlerGetRules_RLock(t)
  \/ HandlerGetRules_range(t)
  \/ HandlerGetRules_return(t)
  \/ onRuleUpdate_Lock(t)
  \/ onRuleUpdate_Locked(t)
  \/ onRuleUpdate_assign(t)
  \/ onRuleUpdate_Unlock(t)
  \/ GetRules_make(t)
  \/ GetRules_RLock(t)
  \/ GetRules_range(t)
  \/ GetRules_return(t)

NextReads ==
  \E t \in Threads :
    \/ RegisterRuleUpdateHandler(t, ReadingHandler)
    \/ \E list \in LiveLists : LoadRules_call(t, list)
    \/ GetRules_call(t)
    \/ StepReads(t)

SpecReads == Init /\ [][NextReads]_vars /\ \A t \in Threads : WF_vars(StepReads(t))

(***************************************************************************)
(* Index construction on its own: one LoadRules call with any candidate    *)
(* list of up to MaxLen pointers (nil included) runs buildRuleMap.         *)
(***************************************************************************)
BuildLists ==
  UNION { [1..n -> RuleAddrs \cup {Nil}] : n \in 0..MaxLen }

NextBuild ==
  \E t \in Threads : \E list \in BuildLists : nops = 0 /\ LoadRules_call(t, list)

SpecBuild == Init /\ [][NextBuild]_vars

(***************************************************************************)
(* Properties.                                                             *)
(***************************************************************************)
Reads == {"GetRules", "getRules"}

\* the read of goroutine t has ranged ruleMap: rules[t] is what it observed
Collected(t) == op[t] \in Reads /\ pc[t] \in {"g_runlock", "i_runlock", "done"}

\* the call of goroutine t has returned
Done(t, name) == pc[t] = "done" /\ op[t] = name

\* every sequence a range loop over the index mp can collect
Flattenings(mp) == { Collect(mp, o) : o \in RangeOrders(mp) }

Count(s, x) == Cardinality({ i \in DOMAIN s : s[i] = x })
Elems(s) == { s[i] : i \in DOMAIN s }
\* the same elements, each as often, in any order
SameCollection(s1, s2) == \A x \in Elems(s1) \cup Elems(s2) : Count(s1, x) = Count(s2, x)

\* the validator's conditions, stated on a rule value
Satisfies(r) ==
  /\ r.TriggerCount >= 0
  /\ r.MetricType < MetricTypeSize
  /\ (r.MetricType = CpuUsage => r.TriggerCount <= TriggerScale)

ValidPtr(a) == a # Nil /\ Satisfies(RulePool[a])
AllValid(list) == \A i \in DOMAIN list : ValidPtr(list[i])
\* the candidates of a list that satisfy the validator, in input order
ValidOnes(list) == SelectSeq(list, ValidPtr)

\* the slice a read returned holds, element by element, the rules it collected
ReturnedAsCollected(t) ==
  /\ Len(ret[t]) = Len(rules[t])
  /\ \A i \in DOMAIN ret[t] :
       IF op[t] = "getRules"
       THEN ret[t][i].ptr = rules[t][i]
       ELSE ret[t][i].ptr = Nil /\ (~mutated[t] => ret[t][i].val = RulePool[rules[t][i]])

(* C1: whatever readers and loads run concurrently, the sequence a read     *)
(* (GetRules or getRules) collects and returns is the full content of the   *)
(* index built from the candidate list of one publish (or of the initial    *)
(* empty index), in some order of its buckets: never rules of two loads.    *)
C1_ReadsOneIndex ==
  \A t \in Threads :
    Collected(t) =>
      /\ rules[t] \in Flattenings(buildRuleMap(RulePool, srcList[t]))
      /\ (pc[t] = "done" => ReturnedAsCollected(t))

\* a read collected a two-bucket index of an earlier load while another load
\* of a different list waits for the write lock
C1_Witness ==
  \E t, u \in Threads :
    /\ pc[t] \in {"g_runlock", "i_runlock"}
    /\ Len(rules[t]) = 3
    /\ pc[u] = "u_wait"
    /\ arg[u] # srcList[t]

(* C2, as amended: once a LoadRules call whose handler invoked the          *)
(* installer callback has returned (true, nil), every read (GetRules or     *)
(* getRules) called afterwards observes the index that load published or    *)
(* one published later, never an earlier one.                               *)
C2_ReadsAfterPublishingLoad ==
  \A t \in Threads :
    Collected(t) =>
      /\ srcVer[t] >= needPub[t]
      /\ rules[t] \in Flattenings(buildRuleMap(RulePool, srcList[t]))

(* C2, as first stated: once any LoadRules call has returned (true, nil),   *)
(* every read called afterwards observes the index built by that load or    *)
(* one published later, never one that was active before that load.         *)
C2_ReadsAfterAnyLoad ==
  \A t \in Threads :
    Collected(t) =>
      /\ srcVer[t] >= needAny[t]
      /\ rules[t] \in Flattenings(buildRuleMap(RulePool, srcList[t]))

\* a read called after a publishing load returned (true, nil) has returned
\* the rules of exactly that load
C2_Witness ==
  \E t \in Threads :
    /\ pc[t] = "done" /\ op[t] \in Reads
    /\ needPub[t] > 0
    /\ srcVer[t] = needPub[t]
    /\ Len(rules[t]) > 0

\* the handler of goroutine t's load returned an error
HandlerFailed(t) == HandlerReturn(hnd[t], NoErr) # NoErr

(* C3: for any registered handler, if the handler returns an error,        *)
(* LoadRules returns (false, err) and the call has not changed the active   *)
(* index (it made no assignment to ruleMap).                                *)
C3_FailedLoadAnyHandler ==
  \A t \in Threads :
    (Done(t, "LoadRules") /\ HandlerFailed(t)) =>
      /\ result[t] = <<FALSE, HandlerReturn(hnd[t], NoErr)>>
      /\ pubVer[t] = 0

\* the values of the rules a candidate list points to
ValuesOf(list) == [i \in DOMAIN list |-> RulePool[list[i]]]
\* the values held by the slice GetRules returned to goroutine t
Returned_values(t) == [i \in DOMAIN ret[t] |-> ret[t][i].val]

(* C4: for a list R of valid rules only, LoadRules(R) with the default      *)
(* handler returns (true, nil), and a GetRules that reads the index while   *)
(* R's publish is the latest one returns exactly the rules of R as a        *)
(* collection (same elements as often, bucket order free), whatever rules   *)
(* were active before.                                                      *)
C4_LoadThenGetRules ==
  \A t \in Threads :
    /\ (Done(t, "LoadRules") /\ hnd[t] = "default" /\ AllValid(arg[t])) =>
         result[t] = <<TRUE, NoErr>>
    /\ (op[t] = "GetRules" /\ Collected(t) /\ AllValid(srcList[t])) =>
         /\ SameCollection(rules[t], srcList[t])
         /\ (pc[t] = "done" /\ ~mutated[t]) =>
              SameCollection(Returned_values(t), ValuesOf(srcList[t]))

\* after a load of <<2, 2>>, a load of the three valid rules 1, 3, 2 has
\* returned success and a GetRules has returned the three rules
C4_Witness ==
  \E t, u \in Threads :
    /\ Done(u, "LoadRules") /\ arg[u] = <<1, 3, 2>> /\ pubVer[u] >= 2
    /\ hnd[u] = "default" /\ result[u] = <<TRUE, NoErr>>
    /\ Done(t, "GetRules") /\ srcVer[t] = pubVer[u] /\ ~mutated[t]
    /\ Len(ret[t]) = 3

(* C5: for any candidate list, also one mixing valid and invalid entries,   *)
(* LoadRules with the default handler returns (true, nil); the snapshot     *)
(* that follows holds no invalid rule and holds every valid rule of the     *)
(* list as often as the list does, wherever the invalid entries stand.      *)
C5_InvalidRulesSkipped ==
  \A t \in Threads :
    /\ (Done(t, "LoadRules") /\ hnd[t] = "default") => result[t] = <<TRUE, NoErr>>
    /\ Collected(t) =>
         /\ \A i \in DOMAIN rules[t] : ValidPtr(rules[t][i])
         /\ \A i \in DOMAIN srcList[t] :
              ValidPtr(srcList[t][i]) =>
                Count(rules[t], srcList[t][i]) = Count(srcList[t], srcList[t][i])
         /\ (Done(t, "GetRules") /\ ~mutated[t]) =>
              \A i \in DOMAIN ret[t] : Satisfies(ret[t][i].val)

\* the list with an invalid rule, a valid rule and a nil entry was loaded
\* with success and GetRules returned the one valid rule
C5_Witness ==
  \E t, u \in Threads :
    /\ Done(u, "LoadRules") /\ arg[u] = <<4, 3, Nil>> /\ result[u] = <<TRUE, NoErr>>
    /\ Done(t, "GetRules") /\ srcList[t] = <<4, 3, Nil>>
    /\ rules[t] = <<3>>
    /\ Returned_values(t) = << RulePool[3] >>

(* C6: in every reachable state every rule of the active index is non-nil,  *)
(* has TriggerCount >= 0, a MetricType inside the enumerated range, and     *)
(* TriggerCount <= 1.0 when its MetricType is CpuUsage.                     *)
C6_ActiveRulesValid ==
  \A mt \in DOMAIN ruleMap :
    \A i \in DOMAIN ruleMap[mt] :
      /\ ruleMap[mt][i] # Nil
      /\ heap[ruleMap[mt][i]].TriggerCount >= 0
      /\ heap[ruleMap[mt][i]].MetricType < MetricTypeSize
      /\ (heap[ruleMap[mt][i]].MetricType = CpuUsage =>
            heap[ruleMap[mt][i]].TriggerCount <= TriggerScale)

\* the active index holds the one valid rule of a list with invalid entries,
\* and a caller of GetRules has written an invalid value into its result
C6_Witness ==
  /\ curList = <<4, 3, Nil>>
  /\ ruleMap # EmptyMap
  /\ \E t \in Threads : mutated[t] /\ Len(ret[t]) = 1

(* C7: ClearRules with the default handler returns no error, and a GetRules *)
(* that reads the index while the publish of that ClearRules is the latest  *)
(* one returns an empty sequence, whatever was active before.               *)
C7_ClearRules ==
  \A u \in Threads :
    (Done(u, "ClearRules") /\ hnd[u] = "default") =>
      /\ result[u] = << NoErr >>
      /\ pubVer[u] > 0
      /\ \A t \in Threads :
           (op[t] = "GetRules" /\ Collected(t) /\ srcVer[t] = pubVer[u]) =>
             /\ rules[t] = << >>
             /\ (pc[t] = "done" => ret[t] = << >>)

\* after an earlier load had published, ClearRules published and returned
\* and a GetRules then read the index
C7_Witness ==
  \E t, u \in Threads :
    /\ Done(u, "ClearRules") /\ hnd[u] = "default" /\ pubVer[u] = 2
    /\ Done(t, "GetRules") /\ srcVer[t] = 2
    /\ nops = MaxOps

\* goroutine t's installer callback assigns ruleMap in this step
Publishes(t) == pc[t] = "u_assign" /\ pc'[t] = "u_unlock"

(* C8: loading is idempotent: when a LoadRules of a list of valid rules     *)
(* publishes while the latest publish is already one of that same list, the *)
(* active index, and so every snapshot that can be taken of it, stays what  *)
(* it was after the first load.                                             *)
C8_LoadIdempotent ==
  [][ \A t \in Threads :
        (Publishes(t) /\ op[t] = "LoadRules" /\ ver > 0
           /\ arg[t] = curList /\ AllValid(arg[t])) =>
          /\ ruleMap' = ruleMap
          /\ Flattenings(ruleMap') = Flattenings(ruleMap) ]_vars

\* two loads of the same three valid rules have published one after the other
C8_Witness ==
  \E t, u \in Threads :
    /\ Done(u, "LoadRules") /\ arg[u] = <<1, 3, 2>> /\ pubVer[u] = 1
    /\ Done(t, "LoadRules") /\ arg[t] = <<1, 3, 2>> /\ pubVer[t] = 2
    /\ ver = 2
    /\ ruleMap = buildRuleMap(RulePool, <<1, 3, 2>>)

\* the rule a returned IsValidSystemRule call was given
Checked(t) == heap[arg[t][1]]

(* C9: IsValidSystemRule returns an error for a nil rule, for a negative    *)
(* TriggerCount whatever the metric type, for a MetricType outside the      *)
(* enumerated range and for a CpuUsage rule with TriggerCount above 1.0     *)
(* (1.0001 included); it returns nil for a CpuUsage rule with TriggerCount  *)
(* exactly 1.0 and for every other rule; and a call leaves the store (rule  *)
(* map, locks, handler, rule objects) as it was.                            *)
C9_Validator ==
  /\ [](\A t \in Threads :
          Done(t, "IsValidSystemRule") =>
            LET err == result[t][1] IN
            IF arg[t][1] = Nil THEN err # NoErr
            ELSE /\ Checked(t).TriggerCount < 0 => err # NoErr
                 /\ Checked(t).MetricType >= MetricTypeSize => err # NoErr
                 /\ (Checked(t).MetricType = CpuUsage
                       /\ Checked(t).TriggerCount > TriggerScale) => err # NoErr
                 /\ Checked(t) = MkRule(CpuUsage, TriggerScale) => err = NoErr
                 /\ Checked(t) = MkRule(CpuUsage, TriggerScale + 1) => err # NoErr
                 /\ Satisfies(Checked(t)) => err = NoErr)
  /\ [][ (\E t \in Threads : op'[t] = "IsValidSystemRule" /\ nops' # nops) =>
           UNCHANGED shared ]_vars

\* a CpuUsage rule with TriggerCount exactly 1.0 was accepted
C9_Witness ==
  \E t \in Threads :
    /\ Done(t, "IsValidSystemRule")
    /\ arg[t] = << TestAddr >>
    /\ Checked(t) = MkRule(CpuUsage, TriggerScale)
    /\ result[t] = << NoErr >>

(* C10: GetRules returns value copies: whatever a caller writes into the    *)
(* slice it was given, every rule object keeps its value and the active     *)
(* index stays the one the latest publish installed, so a GetRules not yet  *)
(* written to holds the values of the rules of the index it read.           *)
C10_GetRulesCopies ==
  /\ \A a \in RuleAddrs : heap[a] = RulePool[a]
  /\ ruleMap = buildRuleMap(RulePool, curList)
  /\ \A t \in Threads :
       (Done(t, "GetRules") /\ ~mutated[t]) =>
         \A i \in DOMAIN ret[t] : ElemRule(heap, ret[t][i]) = RulePool[rules[t][i]]

\* a caller has overwritten an element of its result, and another GetRules
\* of the same index holds the rules unchanged
C10_Witness ==
  \E t, u \in Threads :
    /\ Done(t, "GetRules") /\ mutated[t] /\ Len(ret[t]) = 3
    /\ Done(u, "GetRules") /\ ~mutated[u] /\ srcVer[u] = srcVer[t]
    /\ Len(ret[u]) = 3

\* goroutine t runs or has run a load (LoadRules or ClearRules)
Loads == {"LoadRules", "ClearRules"}
\* no load is in flight
AllReturned == \A t \in Threads : Idle(t)

(* C11: when several LoadRules calls run concurrently with the default      *)
(* handler, the load whose publish step took the write lock last wins:      *)
(* once all have returned, the active index is exactly the complete index   *)
(* built from that load's candidates, with nothing of the other loads.      *)
C11_LastWriterWins ==
  \A t \in Threads :
    (AllReturned /\ op[t] \in Loads /\ hnd[t] = "default" /\ pubVer[t] = ver) =>
      /\ ruleMap = mloc[t]
      /\ ruleMap = buildRuleMap(RulePool, arg[t])
      /\ \A mt \in DOMAIN ruleMap : ruleMap[mt] = SelectSeq(ValidOnes(arg[t]),
                                       LAMBDA a : RulePool[a].MetricType = mt)

\* two loads of different lists have both returned; the one that published
\* second holds the index, and it shares a metric type with the other
C11_Witness ==
  \E t, u \in Threads :
    /\ Done(t, "LoadRules") /\ Done(u, "LoadRules")
    /\ hnd[t] = "default" /\ hnd[u] = "default"
    /\ pubVer[u] = 1 /\ pubVer[t] = 2 /\ ver = 2
    /\ arg[u] = <<1, 3, 2>> /\ arg[t] = <<2, 2>>
    /\ ruleMap = mloc[t]

\* the registrar calls owed for a candidate list: one per valid candidate,
\* in input order, with the rule's resource name and the adaptive slot
OwedCalls(list) ==
  [i \in DOMAIN ValidOnes(list) |->
     [rule |-> ValidOnes(list)[i],
      res |-> ResourceName(RulePool, ValidOnes(list)[i]),
      slot |-> DefaultAdaptiveSlot]]

\* buildRuleMap has run in goroutine t's LoadRules
Built(t) == op[t] = "LoadRules" /\ pc[t] # "idle"

(* C12: while the index is built the chain registrar is called exactly once *)
(* for each accepted candidate, with that rule's resource name and the      *)
(* adaptive slot, in the input order of the accepted candidates; it is not  *)
(* called for a candidate the validator rejects, nor for an empty list.     *)
C12_RegistrarCalls ==
  \A t \in Threads :
    Built(t) =>
      /\ regs[t] = OwedCalls(arg[t])
      /\ \A i \in DOMAIN regs[t] :
           /\ ValidPtr(regs[t][i].rule)
           /\ regs[t][i].slot = DefaultAdaptiveSlot
      /\ \A a \in RuleAddrs :
           Count([i \in DOMAIN regs[t] |-> regs[t][i].rule], a) =
             IF ValidPtr(a) THEN Count(arg[t], a) ELSE 0
      /\ (arg[t] = << >> => regs[t] = << >>)

\* a list with a valid rule twice around an invalid one: two calls, both
\* for the valid rule
C12_Witness ==
  \E t \in Threads :
    /\ Built(t)
    /\ arg[t] = <<2, 5, 2>>
    /\ Len(regs[t]) = 2
    /\ regs[t][1].rule = 2 /\ regs[t][2].rule = 2

\* goroutine t's load is past the invocation of the handler
HandlerInvoked(t) ==
  op[t] \in Loads /\ pc[t] \in {"u_lock", "u_wait", "u_assign", "u_unlock", "done"}

(* C13: there is one process-wide handler and the last registration wins:   *)
(* the handler variable always holds the handler registered last; a load    *)
(* invokes exactly one handler, once, namely the one the variable holds     *)
(* when the load reads it; a registration made after that read does not     *)
(* change the handler of that load, whose publish and result are those of   *)
(* the handler it read.                                                     *)
C13_OneHandlerLastWins ==
  /\ [](/\ ruleUpdateHandler = lastReg
        /\ \A t \in Threads :
             /\ pc[t] = "l_handler" => hnd[t] = "none"
             /\ HandlerInvoked(t) => hnd[t] \in Handlers
             /\ (pc[t] = "done" /\ op[t] \in Loads) =>
                  /\ (pubVer[t] > 0) = HandlerInvokes(hnd[t])
                  /\ result[t][Len(result[t])] = HandlerReturn(hnd[t], NoErr))
  /\ [][ \A t \in Threads :
           /\ (pc[t] = "l_handler" /\ pc'[t] # "l_handler") => hnd'[t] = lastReg
           /\ (HandlerInvoked(t) /\ hnd'[t] # hnd[t]) =>
                (pc[t] = "done" /\ hnd'[t] = "none") ]_vars

\* a load that read the default handler is still in flight while the
\* variable already holds a handler registered later
C13_Witness ==
  \E t \in Threads :
    /\ op[t] = "LoadRules"
    /\ pc[t] \in {"u_lock", "u_wait", "u_assign"}
    /\ hnd[t] = "default"
    /\ ruleUpdateHandler = "reject"

\* where a goroutine stands while it holds the read lock (in GetRules called
\* directly or by a handler, and in getRules), the write lock
HoldsRead == {"g_range", "g_runlock", "i_range", "i_runlock", "h_range", "h_runlock"}
HoldsWrite == {"u_wait", "u_assign", "u_unlock"}

(* C14: under fair scheduling and the default handler every started         *)
(* LoadRules, ClearRules, GetRules and getRules call eventually returns:    *)
(* the lock is held only by a goroutine inside its locked section, is free  *)
(* once every call has returned, and no interleaving blocks a call forever. *)
C14_CallsReturn ==
  /\ [](/\ \A t \in Threads :
             /\ t \in rlocked => pc[t] \in HoldsRead
             /\ wlock = t => pc[t] \in HoldsWrite
        /\ AllReturned => (rlocked = {} /\ wlock = 0))
  /\ \A t \in Threads : (~Idle(t)) ~> Idle(t)

\* a load waits in Lock() for the reader that holds the read lock
C14_Witness ==
  \E t, u \in Threads :
    /\ pc[u] = "u_wait" /\ wlock = u
    /\ t \in rlocked /\ pc[t] \in HoldsRead

\* where a load stands between the invocation of the handler and the
\* handler's call of the installer
InHandler == {"h_make", "h_rlock", "h_range", "h_runlock", "u_lock"}

(* C15: the write lock is held only for the swap of the reference: where a  *)
(* load holds (or has claimed) the write lock, its validation, index        *)
(* construction and registrar calls are finished and its handler has been   *)
(* invoked, and its steps under the lock change none of them; a load holds  *)
(* no lock when it invokes the handler, so a handler that reads the store   *)
(* with GetRules before it calls the installer does not block: the load     *)
(* returns, and it holds the read lock exactly between the RLock and the    *)
(* RUnlock of that GetRules.                                                *)
C15_LockOnlyForSwap ==
  /\ [](\A t \in Threads :
          /\ wlock = t =>
               /\ pc[t] \in HoldsWrite /\ op[t] \in Loads
               /\ hnd[t] \in Handlers \cup {ReadingHandler}
               /\ mloc[t] = buildRuleMap(RulePool, arg[t])
               /\ regs[t] = OwedCalls(arg[t])
          /\ pc[t] \in {"l_handler", "h_make", "h_rlock", "u_lock"} =>
               (wlock # t /\ t \notin rlocked)
          /\ pc[t] \in InHandler => wlock # t
          /\ (t \in rlocked <=> pc[t] \in HoldsRead))
  /\ [][ \A t \in Threads :
           (wlock = t /\ pc'[t] # pc[t]) =>
             /\ UNCHANGED << mloc, regs, heap, hnd >>
             /\ (ruleMap' # ruleMap => pc[t] = "u_assign") ]_vars
  /\ \A t \in Threads : (pc[t] = "l_handler") ~> (pc[t] = "done")

\* a load holds the write lock for the assignment after its handler has read
\* a loaded store with GetRules
C15_Witness ==
  \E t \in Threads :
    /\ wlock = t /\ pc[t] = "u_assign"
    /\ hnd[t] = ReadingHandler
    /\ Len(rules[t]) > 0
    /\ arg[t] = <<4, 3, Nil>> /\ Len(regs[t]) = 1

\* where a goroutine stands when its next step reads the variable ruleMap
\* (line 27: len(ruleMap); lines 29, 48: range ruleMap), writes it (line 84)
ReadsRuleMap == {"g_make", "g_range", "i_range", "h_make", "h_range"}
WritesRuleMap == {"u_assign"}

(* C16: every access to the variable ruleMap follows the lock discipline:   *)
(* GetRules and getRules read it only while holding the read lock, a        *)
(* publish writes it only while holding the write lock, and so no read of   *)
(* it is concurrent with the write of a publish.                            *)
C16_LockDiscipline ==
  \A t \in Threads :
    /\ pc[t] \in ReadsRuleMap => t \in rlocked
    /\ pc[t] \in WritesRuleMap => (wlock = t /\ rlocked = {})
    /\ \A u \in Threads : ~(pc[t] \in ReadsRuleMap /\ pc[u] \in WritesRuleMap)

\* the accepted candidates of a list whose metric type is mt, in input order
AcceptedOfType(list, mt) ==
  SelectSeq(ValidOnes(list), LAMBDA a : RulePool[a].MetricType = mt)

(* C17: for every candidate list, the index buildRuleMap returns maps each  *)
(* metric type to exactly the accepted candidates of that type, in their    *)
(* input order and with duplicates kept; a type without accepted rule has   *)
(* no bucket, and every rule sits in the bucket of its own metric type.     *)
C17_BucketsByMetricType ==
  \A t \in Threads :
    Built(t) =>
      /\ DOMAIN mloc[t] =
           { RulePool[a].MetricType : a \in Elems(ValidOnes(arg[t])) }
      /\ \A mt \in DOMAIN mloc[t] :
           /\ mloc[t][mt] = AcceptedOfType(arg[t], mt)
           /\ Len(mloc[t][mt]) > 0
           /\ \A i \in DOMAIN mloc[t][mt] :
                RulePool[mloc[t][mt][i]].MetricType = mt

\* two CPU rules around a load rule: the CPU bucket holds both in input
\* order, the load rule has its own bucket
C17_Witness ==
  \E t \in Threads :
    /\ Built(t)
    /\ arg[t] = <<2, 3, 1>>
    /\ mloc[t][CpuUsage] = <<2, 1>>
    /\ mloc[t][Load] = <<3>>
    /\ DOMAIN mloc[t] = {Load, CpuUsage}

(* C18: a LoadRules (default handler) of a non-empty list whose candidates  *)
(* are all invalid returns (true, nil) and publishes the empty index, as    *)
(* ClearRules does: while its publish is the latest, the active index is    *)
(* empty and reads return no rule, whatever was active before.              *)
C18_OnlyInvalidClears ==
  \A t \in Threads :
    (Done(t, "LoadRules") /\ hnd[t] = "default"
       /\ Len(arg[t]) > 0 /\ ValidOnes(arg[t]) = << >>) =>
      /\ result[t] = <<TRUE, NoErr>>
      /\ pubVer[t] > 0
      /\ mloc[t] = buildRuleMap(RulePool, << >>)
      /\ (ver = pubVer[t] => ruleMap = EmptyMap)
      /\ \A u \in Threads :
           (Collected(u) /\ srcVer[u] = pubVer[t]) => rules[u] = << >>

\* a GetRules returned three active rules, then a load of two invalid rules
\* returned success and the index is empty
C18_Witness ==
  \E t, u \in Threads :
    /\ Done(u, "GetRules") /\ srcVer[u] = 1 /\ Len(ret[u]) = 3
    /\ Done(t, "LoadRules") /\ arg[t] = <<5, 6>> /\ hnd[t] = "default"
    /\ pubVer[t] = 2 /\ ver = 2
    /\ result[t] = <<TRUE, NoErr>>
    /\ ruleMap = EmptyMap

(* C19: the active index changes only in the installer callback, and then  *)
(* to exactly the index passed to it: no step of GetRules, getRules,        *)
(* RegisterRuleUpdateHandler, of index construction or of a load whose      *)
(* handler returns without invoking the callback changes it; and what       *)
(* LoadRules returns is decided by the handler's return value alone:        *)
(* (true, nil) for nil, (false, err) for an error.                          *)
C19_OnlyInstallerChangesIndex ==
  /\ [][ /\ ruleMap' # ruleMap => \E t \in Threads : Publishes(t)
         /\ \A t \in Threads : Publishes(t) => ruleMap' = mloc[t] ]_vars
  /\ [](\A t \in Threads :
          Done(t, "LoadRules") =>
            /\ ~HandlerInvokes(hnd[t]) => pubVer[t] = 0
            /\ result[t] = IF HandlerReturn(hnd[t], NoErr) = NoErr
                           THEN <<TRUE, NoErr>>
                           ELSE <<FALSE, HandlerReturn(hnd[t], NoErr)>>)

\* a load whose handler returned nil without invoking the callback has
\* returned (true, nil) and the index is still the one of an earlier load
C19_Witness ==
  \E t \in Threads :
    /\ Done(t, "LoadRules") /\ hnd[t] = "skip"
    /\ result[t] = <<TRUE, NoErr>>
    /\ pubVer[t] = 0 /\ ver = 1
    /\ ruleMap # EmptyMap
    /\ ruleMap # mloc[t]

\* every registrar call owed for goroutine t's candidates is in the registry
OwedRegistered(t) ==
  \A i \in DOMAIN OwedCalls(arg[t]) :
    <<OwedCalls(arg[t])[i].res, OwedCalls(arg[t])[i].slot>> \in checkSlots

\* goroutine t's load has built its index (line 56 is done)
LoadBuilt(t) == op[t] \in Loads /\ pc[t] # "idle"

(* C20: the registrar calls for all accepted rules of a load are made       *)
(* before the handler is invoked and are never undone: from the moment the  *)
(* handler is about to be invoked, and also after the handler has rejected  *)
(* the load, they are in the registry; no step, ClearRules included,        *)
(* removes a registration.                                                  *)
C20_RegistrationsStay ==
  /\ [](\A t \in Threads :
          /\ LoadBuilt(t) => (regs[t] = OwedCalls(arg[t]) /\ OwedRegistered(t))
          /\ (Done(t, "LoadRules") /\ result[t][1] = FALSE) =>
               (pubVer[t] = 0 => OwedRegistered(t))
          /\ Done(t, "ClearRules") => regs[t] = << >>)
  /\ [][ checkSlots \subseteq checkSlots' ]_vars

\* the handler rejected a load of three valid rules: the index is empty, the
\* two resources are registered, and a ClearRules has returned
C20_Witness ==
  \E t, u \in Threads :
    /\ Done(t, "LoadRules") /\ hnd[t] = "reject"
    /\ result[t] = <<FALSE, "rejected">>
    /\ arg[t] = <<1, 3, 2>> /\ Len(regs[t]) = 3
    /\ ruleMap = EmptyMap
    /\ Cardinality(checkSlots) = 2
    /\ Done(u, "ClearRules")

====
